---- MODULE Spec2Model ----
(***************************************************************************)
(* DisposableStack and AsyncDisposableStack of nberlette/dispose.           *)
(*                                                                         *)
(* Stack objects are numbered 1..MaxStacks.  The fields #disposed, #stack  *)
(* and #errors of every object are the variables disposed, stack, errors.  *)
(* A disposal pass is a sequence of steps: the call pops the top entry and *)
(* invokes its cleanup; the cleanup (code of the caller) then returns or   *)
(* throws, and the pass goes on with the next entry.  Between the start of *)
(* a cleanup and its end, the cleanup itself (sync stack) or any other     *)
(* task (async stack, suspended at an await) may call any operation of any *)
(* stack.                                                                  *)
(*                                                                         *)
(* log, regs, origin, nreg, how, completed, failed and last are history    *)
(* variables: they record what was registered, what was invoked, what      *)
(* ended or failed, and how the last call ended.                           *)
(***************************************************************************)
EXTENDS Integers, Sequences, FiniteSets, TLC

\* Bounds of the model.
MaxStacks == 2
MaxEntries == 2

StackIds == 1..MaxStacks

Sync == "DisposableStack"
Async == "AsyncDisposableStack"
Kinds == {Sync, Async}

\* Values handed to use(): resources exposing Symbol.dispose, Symbol.asyncDispose
\* or both (the parameter type of use), and the two absent values.
Resources == {"resSync", "resAsync", "resBoth"}
Nullish == {"null", "undefined"}
UseValues == Resources \cup Nullish
\* Values handed to adopt().
AdoptValues == {"v42"}

VARIABLES
  kind,      \* kind[s]: the class of object s, "none" until it is constructed
  disposed,  \* disposed[s]: the field #disposed
  stack,     \* stack[s]: the field #stack, a sequence of entries, top last
  errors,    \* errors[s]: the field #errors
  pc,        \* pc[s]: where the pass of s is: "idle", "cleanup" or "done"
  cur,       \* cur[s]: the entry popped by the pass and its calls still to make
  result,    \* result[s]: how the call that ran the pass ended
  frames,    \* the sync stacks whose dispose() is on the call stack, innermost last
  inflight,  \* asynchronous cleanups started by a sync stack and not awaited
  last,      \* the last call: operation, receiver, argument, outcome
  log,       \* every cleanup invocation, in order
  regs,      \* regs[s]: ids of the entries registered on s, in order
  origin,    \* origin[s]: the stack s was moved out of, 0 for a constructed one
  nreg,      \* number of entries registered so far
  how,       \* how[id]: the call that registered entry id and its argument
  completed, \* ids of the entries whose cleanup has returned or thrown
  failed     \* the cleanups that failed, in order: [stack, id]

vars == <<kind, disposed, stack, errors, pc, cur, result, frames, inflight,
          last, log, regs, origin, nreg, how, completed, failed>>

Allocated == {s \in StackIds : kind[s] # "none"}

----------------------------------------------------------------------------
\* Entries and their cleanups

NoCallback == [fn |-> "undefined", bound |-> "unbound"]
NoCur == [id |-> 0, calls |-> <<>>]

\* [value, undefined], pushed by use
ResourceEntry(value, id) == [value |-> value, onDispose |-> NoCallback, id |-> id]

\* value != null
PresentStrict(value) == value # "null"
Present(value) == value \notin Nullish

\* [value, onDispose] pushed by adopt in place of the closure
AdoptEntryOwned(value, onDispose, id) ==
  [value |-> value, onDispose |-> [fn |-> onDispose, bound |-> "unbound"], id |-> id]

\* [undefined, () => onDispose(value)], pushed by adopt
AdoptEntry(value, onDispose, id) ==
  [value |-> "undefined", onDispose |-> [fn |-> onDispose, bound |-> value], id |-> id]

\* [undefined, onDispose], pushed by defer
DeferEntry(onDispose, id) ==
  [value |-> "undefined", onDispose |-> [fn |-> onDispose, bound |-> "unbound"], id |-> id]

\* value && typeof value === "object" || typeof value === "function"
IsObject(value) == value \in Resources
\* Symbol.dispose in value && typeof value[Symbol.dispose] === "function"
HasDispose(value) == value \in {"resSync", "resBoth"}
\* Symbol.asyncDispose in value && typeof value[Symbol.asyncDispose] === "function"
HasAsyncDispose(value) == value \in {"resAsync", "resBoth"}

\* typeof onDispose === "function": onDispose(value); the closure made by adopt
\* passes the adopted value on, a deferred callback receives the entry's value.
CallbackCalls(e) ==
  IF e.onDispose.fn # "undefined"
  THEN << [call |-> e.onDispose.fn,
           arg |-> IF e.onDispose.bound # "unbound" THEN e.onDispose.bound ELSE e.value] >>
  ELSE << >>

\* The two capability tests in the other order.
AsyncFirst(value) ==
  IF HasAsyncDispose(value) THEN << [call |-> "Symbol.asyncDispose", arg |-> value] >>
  ELSE IF HasDispose(value) THEN << [call |-> "Symbol.dispose", arg |-> value] >>
  ELSE << >>
SyncFirst(value) ==
  IF HasDispose(value) THEN << [call |-> "Symbol.dispose", arg |-> value] >>
  ELSE IF HasAsyncDispose(value) THEN << [call |-> "Symbol.asyncDispose", arg |-> value] >>
  ELSE << >>

\* The capability dispose() invokes on the value of an entry.
SyncCapabilityCalls(value) ==
  IF IsObject(value)
  THEN IF HasDispose(value) THEN << [call |-> "Symbol.dispose", arg |-> value] >>
       ELSE IF HasAsyncDispose(value) THEN << [call |-> "Symbol.asyncDispose", arg |-> value] >>
       ELSE << >>
  ELSE << >>

\* The capability disposeAsync() invokes on the value of an entry.
AsyncCapabilityCalls(value) ==
  IF IsObject(value)
  THEN IF HasAsyncDispose(value) THEN << [call |-> "Symbol.asyncDispose", arg |-> value] >>
       ELSE IF HasDispose(value) THEN << [call |-> "Symbol.dispose", arg |-> value] >>
       ELSE << >>
  ELSE << >>

\* The calls the body of the try block makes for entry e, in order.
Calls(k, e) ==
  CallbackCalls(e) \o (IF k = Sync THEN SyncCapabilityCalls(e.value)
                                   ELSE AsyncCapabilityCalls(e.value))

\* this.#stack.pop()
PoppedDistinct(stk) ==
  [entry |-> stk[Len(stk)],
   rest |-> SelectSeq(SubSeq(stk, 1, Len(stk) - 1),
                      LAMBDA e : e.value = "undefined" \/ e.value # stk[Len(stk)].value)]
Shifted(stk) == [entry |-> stk[1], rest |-> SubSeq(stk, 2, Len(stk))]
Popped(stk) == [entry |-> stk[Len(stk)], rest |-> SubSeq(stk, 1, Len(stk) - 1)]

\* Entries for which the try block invokes nothing are popped without a step.
RECURSIVE Drain(_, _)
Drain(k, stk) ==
  IF Len(stk) = 0 THEN stk
  ELSE IF Calls(k, Popped(stk).entry) = << >> THEN Drain(k, Popped(stk).rest)
  ELSE stk

\* this.#errors.push(error); an error is named by the entry whose cleanup threw it
Caught(errs, error) == Append(errs, error)

Rec(op, s, arg, outcome, value, dst) ==
  [op |-> op, s |-> s, arg |-> arg, outcome |-> outcome, value |-> value, dst |-> dst]
Step == Rec("step", 0, "none", "none", "none", 0)

Top(seq) == seq[Len(seq)]
InFrames(s) == \E i \in 1..Len(frames) : frames[i] = s
\* The cleanup of s is the code that is running (sync), or may be resumed (async).
Runnable(s) ==
  IF kind[s] = Sync THEN frames # << >> /\ Top(frames) = s ELSE frames = << >>

----------------------------------------------------------------------------
Init ==
  /\ kind \in {[s \in StackIds |-> IF s = 1 THEN k ELSE "none"] : k \in Kinds}
  /\ disposed = [s \in StackIds |-> FALSE]
  /\ stack = [s \in StackIds |-> << >>]
  /\ errors = [s \in StackIds |-> << >>]
  /\ pc = [s \in StackIds |-> "idle"]
  /\ cur = [s \in StackIds |-> NoCur]
  /\ result = [s \in StackIds |-> "none"]
  /\ frames = << >>
  /\ inflight = {}
  /\ last = Rec("new", 1, "none", "returned", "none", 0)
  /\ log = << >>
  /\ regs = [s \in StackIds |-> << >>]
  /\ origin = [s \in StackIds |-> 0]
  /\ nreg = 0
  /\ how = << >>
  /\ completed = {}
  /\ failed = << >>


----------------------------------------------------------------------------
\* get disposed(): boolean
NeverDisposed(s) == FALSE
Disposed(s) == disposed[s]

\* An entry is pushed and its registration recorded.
Push(s, e, op, value) ==
  /\ nreg < MaxEntries
  /\ stack' = [stack EXCEPT ![s] = Append(@, e)]
  /\ regs' = [regs EXCEPT ![s] = Append(@, e.id)]
  /\ nreg' = nreg + 1
  /\ how' = Append(how, [op |-> op, value |-> value])

use(s, value) ==
  /\ kind[s] # "none"
  /\ IF Disposed(s)
     THEN /\ last' = Rec("use", s, "none", "ReferenceError", "none", 0)
          /\ UNCHANGED <<stack, regs, nreg, how>>
     ELSE /\ IF Present(value)
             THEN Push(s, ResourceEntry(value, nreg + 1), "use", value)
             ELSE UNCHANGED <<stack, regs, nreg, how>>
          /\ last' = Rec("use", s, value, "returned", value, 0)
  /\ UNCHANGED <<kind, disposed, errors, pc, cur, result, frames, inflight, log, origin,
                 completed, failed>>

adopt(s, value, onDispose) ==
  /\ kind[s] # "none"
  /\ IF Disposed(s)
     THEN /\ last' = Rec("adopt", s, "none", "ReferenceError", "none", 0)
          /\ UNCHANGED <<stack, regs, nreg, how>>
     ELSE /\ Push(s, AdoptEntry(value, onDispose, nreg + 1), "adopt", value)
          /\ last' = Rec("adopt", s, value, "returned", value, 0)
  /\ UNCHANGED <<kind, disposed, errors, pc, cur, result, frames, inflight, log, origin,
                 completed, failed>>

defer(s, onDispose) ==
  /\ kind[s] # "none"
  /\ IF Disposed(s)
     THEN /\ last' = Rec("defer", s, "none", "ReferenceError", "none", 0)
          /\ UNCHANGED <<stack, regs, nreg, how>>
     ELSE /\ Push(s, DeferEntry(onDispose, nreg + 1), "defer", "undefined")
          /\ last' = Rec("defer", s, onDispose, "returned", "undefined", 0)
  /\ UNCHANGED <<kind, disposed, errors, pc, cur, result, frames, inflight, log, origin,
                 completed, failed>>

\* stack.#stack = this.#stack; stack.#disposed = this.#disposed
DestinationDisposed(stk, d) == [stack |-> stk, disposed |-> TRUE]
DestinationFresh(stk, d) == [stack |-> << >>, disposed |-> d]
DestinationOfMove(stk, d) == [stack |-> stk, disposed |-> d]

\* this.#stack = []; this.#disposed = true
SourceKept(stk) == [stack |-> stk, disposed |-> FALSE]
SourceNotCleared(stk) == [stack |-> stk, disposed |-> TRUE]
SourceOfMove(stk) == [stack |-> << >>, disposed |-> TRUE]

move(s) ==
  /\ kind[s] # "none"
  /\ IF Disposed(s)
     THEN /\ last' = Rec("move", s, "none", "ReferenceError", "none", 0)
          /\ UNCHANGED <<kind, disposed, stack, origin>>
     ELSE \E d \in StackIds :
          /\ kind[d] = "none"
          /\ \A t \in StackIds : t < d => kind[t] # "none"
          /\ LET dst == DestinationOfMove(stack[s], disposed[s])
                 src == SourceOfMove(stack[s])
             IN /\ stack' = [stack EXCEPT ![d] = dst.stack, ![s] = src.stack]
                /\ disposed' = [disposed EXCEPT ![d] = dst.disposed, ![s] = src.disposed]
          /\ kind' = [kind EXCEPT ![d] = kind[s]]
          /\ origin' = [origin EXCEPT ![d] = s]
          /\ last' = Rec("move", s, "none", "returned", "none", d)
  /\ UNCHANGED <<errors, pc, cur, result, frames, inflight, log, regs, nreg,
                 how, completed, failed>>

\* The next call of the pass of s is made and recorded.
Invoke(s, id, calls) ==
  /\ cur' = [cur EXCEPT ![s] = [id |-> id, calls |-> calls]]
  /\ log' = Append(log, [stack |-> s, id |-> id, call |-> calls[1].call, arg |-> calls[1].arg])
  /\ pc' = [pc EXCEPT ![s] = "cleanup"]
  /\ result' = result
  /\ frames' = IF kind[s] = Sync /\ ~InFrames(s) THEN Append(frames, s) ELSE frames

\* The call that ran the pass of s returns: nothing is thrown after the loop.
Return(s) ==
  /\ cur' = [cur EXCEPT ![s] = NoCur]
  /\ log' = log
  /\ pc' = [pc EXCEPT ![s] = "done"]
  /\ result' = [result EXCEPT ![s] = "returned"]
  /\ frames' = IF kind[s] = Sync /\ InFrames(s) THEN SubSeq(frames, 1, Len(frames) - 1)
               ELSE frames

\* while (this.#stack.length > 0) { const [value, onDispose] = this.#stack.pop()!; try { ...
Loop(s, errs) ==
  /\ errors' = [errors EXCEPT ![s] = errs]
  /\ LET stk == Drain(kind[s], stack[s])
     IN IF Len(stk) > 0
        THEN /\ stack' = [stack EXCEPT ![s] = Popped(stk).rest]
             /\ Invoke(s, Popped(stk).entry.id, Calls(kind[s], Popped(stk).entry))
        ELSE /\ stack' = [stack EXCEPT ![s] = stk]
             /\ Return(s)

\* this.#disposed = true, before the loop
NotMarked(d) == d
Marked(d) == TRUE

dispose(s) ==
  /\ kind[s] = Sync
  /\ IF ~Disposed(s)
     THEN /\ disposed' = [disposed EXCEPT ![s] = Marked(@)]
          /\ Loop(s, errors[s])
          /\ last' = Rec("dispose", s, "none",
                         IF pc'[s] = "done" THEN "returned" ELSE "running", "none", 0)
     ELSE /\ last' = Rec("dispose", s, "none", "returned", "none", 0)
          /\ UNCHANGED <<disposed, stack, errors, pc, cur, result, frames, log>>
  /\ UNCHANGED <<kind, inflight, regs, origin, nreg, how, completed, failed>>

disposeAsync(s) ==
  /\ kind[s] = Async
  /\ IF ~Disposed(s)
     THEN /\ disposed' = [disposed EXCEPT ![s] = Marked(@)]
          /\ Loop(s, errors[s])
          /\ last' = Rec("disposeAsync", s, "none",
                         IF pc'[s] = "done" THEN "returned" ELSE "running", "none", 0)
     ELSE /\ last' = Rec("disposeAsync", s, "none", "returned", "none", 0)
          /\ UNCHANGED <<disposed, stack, errors, pc, cur, result, frames, log>>
  /\ UNCHANGED <<kind, inflight, regs, origin, nreg, how, completed, failed>>

\* The loop written as a conditional: the call returns after the first cleanup.
CleanupReturnsOnce(s) ==
  /\ pc[s] = "cleanup"
  /\ Runnable(s)
  /\ Return(s)
  /\ completed' = completed \cup {cur[s].id}
  /\ last' = Step
  /\ UNCHANGED <<kind, disposed, stack, errors, inflight, regs, origin, nreg, how, failed>>

\* The running call of the pass of s returns (sync stack) or the awaited value
\* is fulfilled (async stack): the try block goes on, then the loop.
CleanupReturns(s) ==
  /\ pc[s] = "cleanup"
  /\ Runnable(s)
  /\ IF Len(cur[s].calls) > 1
     THEN /\ Invoke(s, cur[s].id, Tail(cur[s].calls))
          /\ UNCHANGED <<stack, errors>>
     ELSE Loop(s, errors[s])
  /\ inflight' = IF kind[s] = Sync /\ cur[s].calls[1].call = "Symbol.asyncDispose"
                 THEN inflight \cup {cur[s].id} ELSE inflight
  /\ completed' = IF Len(cur[s].calls) > 1 THEN completed ELSE completed \cup {cur[s].id}
  /\ failed' = failed
  /\ last' = Step
  /\ UNCHANGED <<kind, disposed, regs, origin, nreg, how>>

\* catch (error) { this.#errors.push(error); } with the pass aborted instead
CleanupThrowsRethrown(s) ==
  /\ pc[s] = "cleanup"
  /\ Runnable(s)
  /\ errors' = [errors EXCEPT ![s] = Caught(@, cur[s].id)]
  /\ cur' = [cur EXCEPT ![s] = NoCur]
  /\ pc' = [pc EXCEPT ![s] = "done"]
  /\ result' = [result EXCEPT ![s] = "threw"]
  /\ frames' = IF kind[s] = Sync THEN SubSeq(frames, 1, Len(frames) - 1) ELSE frames
  /\ completed' = completed \cup {cur[s].id}
  /\ failed' = Append(failed, [stack |-> s, id |-> cur[s].id])
  /\ last' = Step
  /\ UNCHANGED <<kind, disposed, stack, inflight, log, regs, origin, nreg, how>>

\* The running call throws (or the awaited value is rejected):
\* catch (error) { this.#errors.push(error); } and the loop goes on.
CleanupThrows(s) ==
  /\ pc[s] = "cleanup"
  /\ Runnable(s)
  /\ Loop(s, Caught(errors[s], cur[s].id))
  /\ completed' = completed \cup {cur[s].id}
  /\ failed' = Append(failed, [stack |-> s, id |-> cur[s].id])
  /\ last' = Step
  /\ UNCHANGED <<kind, disposed, inflight, regs, origin, nreg, how>>

\* The promise of an asynchronous cleanup with a rejection handler of the stack
\* attached: .catch((error) => this.#errors.push(error))
SettleCaught(id, rejected) ==
  /\ id \in inflight
  /\ frames = << >>
  /\ inflight' = inflight \ {id}
  /\ LET s == log[CHOOSE j \in 1..Len(log) : log[j].id = id].stack
     IN /\ failed' = IF rejected THEN Append(failed, [stack |-> s, id |-> id]) ELSE failed
        /\ errors' = IF rejected THEN [errors EXCEPT ![s] = Caught(@, id)] ELSE errors
  /\ last' = Step
  /\ UNCHANGED <<kind, disposed, stack, pc, cur, result, frames,
                 log, regs, origin, nreg, how, completed>>

\* The promise of an asynchronous cleanup nobody awaits is fulfilled or rejected;
\* the rejection reaches no catch block of the stack.
Settle(id, rejected) ==
  /\ id \in inflight
  /\ frames = << >>
  /\ inflight' = inflight \ {id}
  /\ failed' = IF rejected
               THEN Append(failed, [stack |-> log[CHOOSE j \in 1..Len(log) : log[j].id = id].stack,
                                    id |-> id])
               ELSE failed
  /\ last' = Step
  /\ UNCHANGED <<kind, disposed, stack, errors, pc, cur, result, frames,
                 log, regs, origin, nreg, how, completed>>

\* The calls a program can make, with the arguments of use drawn from U and
\* those of adopt from A.
NextWith(U, A) ==
  \/ \E s \in StackIds, value \in U : use(s, value)
  \/ \E s \in StackIds, value \in A : adopt(s, value, "cb")
  \/ \E s \in StackIds : defer(s, "f")
  \/ \E s \in StackIds : move(s)
  \/ \E s \in StackIds : dispose(s)
  \/ \E s \in StackIds : disposeAsync(s)
  \/ \E s \in StackIds : CleanupReturns(s)
  \/ \E s \in StackIds : CleanupThrows(s)
  \/ \E id \in 1..MaxEntries, rejected \in BOOLEAN : Settle(id, rejected)

Next == NextWith(UseValues, AdoptValues)

Spec == Init /\ [][Next]_vars

\* The same program adopting a primitive and a value that is itself disposable.
AdoptedValues == {"v42", "resBoth"}
UsedBesideAdopt == {"resAsync", "undefined"}
SpecAdopt == Init /\ [][NextWith(UsedBesideAdopt, AdoptedValues)]_vars

\* Every cleanup that was invoked returns or throws (sync stack), every awaited
\* value is settled and the pass resumed (async stack).
CleanupsTerminate == \A s \in StackIds : WF_vars(CleanupReturns(s) \/ CleanupThrows(s))
UsedInLiveSpec == {"resAsync", "resBoth", "null"}
LiveSpec == Init /\ [][NextWith(UsedInLiveSpec, AdoptValues)]_vars /\ CleanupsTerminate

----------------------------------------------------------------------------
\* What the history variables say

Reverse(seq) == [i \in 1..Len(seq) |-> seq[Len(seq) + 1 - i]]
IsPrefix(a, b) == Len(a) <= Len(b) /\ SubSeq(b, 1, Len(a)) = a
Ids(seq) == [i \in 1..Len(seq) |-> seq[i].id]
OfStack(s, r) == r.stack = s

\* ids of the cleanups the pass of s invoked, in the order of invocation
InvokedIds(s) == Ids(SelectSeq(log, LAMBDA r : r.stack = s))

\* ids registered on s or on the stacks it was moved out of, in registration order
RECURSIVE FullRegs(_)
FullRegs(s) == IF origin[s] = 0 THEN regs[s] ELSE FullRegs(origin[s]) \o regs[s]

\* number of invocations of the cleanup of entry id, by any stack
Invocations(id) == Cardinality({j \in 1..Len(log) : log[j].id = id})
\* the places where entry id is held
Holders(id) == {p \in StackIds \X (1..MaxEntries) :
                  p[2] <= Len(stack[p[1]]) /\ stack[p[1]][p[2]].id = id}
LogIndex(id) == CHOOSE j \in 1..Len(log) : log[j].id = id
IsDisposeCall(r) == r.op \in {"dispose", "disposeAsync"}
Capabilities == {"Symbol.dispose", "Symbol.asyncDispose"}

----------------------------------------------------------------------------
\* C1: the cleanups a disposal pass invokes are, at every moment, the most
\* recently registered entries in reverse order of registration, and once the
\* pass has completed they are all the registered entries in reverse order.
C1_ReverseOrder ==
  \A s \in Allocated :
    /\ IsPrefix(InvokedIds(s), Reverse(FullRegs(s)))
    /\ pc[s] = "done" => InvokedIds(s) = Reverse(FullRegs(s))

\* use(X) then defer(f), disposed: f ran first, then the capability of X.
C1_Witness ==
  \E s \in Allocated :
    /\ pc[s] = "done" /\ Len(log) = 2
    /\ log[1].stack = s /\ log[2].stack = s
    /\ log[1].call = "f" /\ log[2].call \in Capabilities
    /\ log[1].id = 2 /\ log[2].id = 1

\* C2: a dispose()/disposeAsync() call on a stack on which disposal was already
\* called (or that was moved out of) invokes no cleanup, raises no error and
\* leaves entries, disposed flag and recorded errors as they were.
C2_SecondDisposeNoOp ==
  [][(IsDisposeCall(last') /\ (pc[last'.s] # "idle" \/ disposed[last'.s]))
       => /\ last'.outcome = "returned"
          /\ UNCHANGED <<stack, disposed, errors, log, pc, cur, result, inflight>>]_vars

\* A second call on a stack whose pass ran two cleanups, one of which failed.
C2_Witness ==
  /\ IsDisposeCall(last) /\ last.outcome = "returned"
  /\ pc[last.s] = "done" /\ Len(InvokedIds(last.s)) = 2 /\ Len(errors[last.s]) = 1

\* C3: when move() returns, the source is disposed and empty, the destination is
\* not disposed and holds the entries registered on the source; and a completed
\* pass of a destination has run its own registrations and then those of the
\* source, each in reverse order of registration.
C3_Move ==
  /\ (last.op = "move" /\ last.outcome = "returned") =>
       /\ disposed[last.s] /\ stack[last.s] = << >>
       /\ last.dst \in Allocated /\ ~disposed[last.dst]
       /\ Ids(stack[last.dst]) = FullRegs(last.s)
  /\ \A d \in Allocated :
       (origin[d] # 0 /\ pc[d] = "done") =>
          InvokedIds(d) = Reverse(regs[d]) \o Reverse(FullRegs(origin[d]))

\* A destination with nothing of its own has run the two cleanups of its source.
C3_Witness ==
  \E d \in Allocated :
    /\ origin[d] # 0 /\ pc[d] = "done" /\ regs[d] = << >>
    /\ Len(regs[origin[d]]) = 2 /\ Len(InvokedIds(d)) = 2

\* C4: use, adopt, defer and move on a disposed stack raise the invalid-use
\* error and change nothing: no entry, no flag, no new stack.
C4_InvalidUse ==
  [][(last'.op \in {"use", "adopt", "defer", "move"} /\ disposed[last'.s])
       => /\ last'.outcome = "ReferenceError" /\ last'.dst = 0
          /\ UNCHANGED <<kind, disposed, stack, errors, pc, cur, result, frames,
                         inflight, log, regs, origin, nreg>>]_vars

\* move() fails on the source of an earlier move.
C4_Witness ==
  /\ last.op = "move" /\ last.outcome = "ReferenceError"
  /\ \E d \in Allocated : origin[d] = last.s
  /\ \E t \in Allocated : pc[t] = "done" /\ disposed[t]

C6_FailuresDoNotStopPass ==
  \A s \in Allocated :
    /\ result[s] # "threw"
    /\ pc[s] = "done" =>
         \A i \in 1..Len(FullRegs(s)) :
           \E j \in 1..Len(log) : log[j].stack = s /\ log[j].id = FullRegs(s)[i]
    /\ \A i, j \in 1..Len(errors[s]) :
         i < j => /\ errors[s][i] > errors[s][j]
                  /\ LogIndex(errors[s][i]) < LogIndex(errors[s][j])

\* Both cleanups of a pass failed, and the pass completed.
C6_Witness ==
  \E s \in Allocated : pc[s] = "done" /\ Len(errors[s]) = 2 /\ Len(FullRegs(s)) = 2

\* C7: a disposal call whose pass recorded a failure ends with an aggregate
\* failure, and in silent success only when no cleanup failed.
C7_AggregateFailure ==
  \A s \in Allocated :
    pc[s] = "done" =>
      result[s] = (IF errors[s] # << >> THEN "aggregate" ELSE "returned")

\* C8: the cleanup of an entry is invoked at most once over all stacks, and
\* exactly once when the pass of the stack that holds it has completed.
C8_ExactlyOnce ==
  /\ \A id \in 1..nreg : Invocations(id) <= 1
  /\ \A s \in Allocated :
       pc[s] = "done" =>
         \A i \in 1..Len(FullRegs(s)) : Invocations(FullRegs(s)[i]) = 1

\* The destination ran two cleanups, and then dispose was called on the source.
C8_Witness ==
  \E d \in Allocated :
    /\ origin[d] # 0 /\ pc[d] = "done" /\ Len(InvokedIds(d)) = 2
    /\ IsDisposeCall(last) /\ last.s = origin[d]

\* C9: a move() step invokes no cleanup, and no cleanup is ever invoked by a
\* stack that was the source of a move.
C9_MoveRunsNothing ==
  [][/\ last'.op = "move" => log' = log
     /\ \A d \in StackIds :
          origin'[d] # 0 => \A j \in 1..Len(log') : log'[j].stack # origin'[d]]_vars

\* dispose was called on a source that had two entries when it was moved.
C9_Witness ==
  /\ IsDisposeCall(last) /\ Len(regs[last.s]) = 2
  /\ \E d \in Allocated : origin[d] = last.s

\* C10: every registered entry whose cleanup was not invoked is held at exactly
\* one place of exactly one stack.
C10_OneHolder ==
  \A id \in 1..nreg : Invocations(id) = 0 => Cardinality(Holders(id)) = 1

\* A destination holds the two entries moved into it.
C10_Witness ==
  \E d \in Allocated : origin[d] # 0 /\ Len(stack[d]) = 2 /\ Len(regs[origin[d]]) = 2

----------------------------------------------------------------------------
\* ids of the cleanups of s that were started and have not ended
InFlight(s) == {id \in 1..nreg : id \notin completed /\ \E j \in 1..Len(log) :
                                    log[j].stack = s /\ log[j].id = id}
\* ids of the cleanups of s that failed, in the order of failure
FailedIds(s) == Ids(SelectSeq(failed, LAMBDA r : r.stack = s))
Registered(id, op, value) == how[id] = [op |-> op, value |-> value]

\* Every completed pass has invoked every entry once, in reverse order.
EveryEntryOnceInOrder ==
  \A s \in StackIds :
    pc[s] = "done" =>
      /\ InvokedIds(s) = Reverse(FullRegs(s))
      /\ \A i \in 1..Len(FullRegs(s)) : Invocations(FullRegs(s)[i]) = 1

C12_Sequential ==
  \A s \in Allocated :
    kind[s] = Async =>
      /\ Cardinality(InFlight(s)) <= 1
      /\ \A i \in 1..(Len(InvokedIds(s)) - 1) : InvokedIds(s)[i] \in completed
      /\ \A i, j \in 1..Len(FullRegs(s)) :
           (i < j /\ \E n \in 1..Len(log) : log[n].stack = s /\ log[n].id = FullRegs(s)[i])
             => FullRegs(s)[j] \in completed

\* Another task called disposeAsync while the second of two cleanups was awaited.
C12_Witness ==
  /\ last.op = "disposeAsync" /\ kind[last.s] = Async /\ pc[last.s] = "cleanup"
  /\ Len(InvokedIds(last.s)) = 2 /\ Cardinality(InFlight(last.s)) = 1

C14_SyncPrefersSync ==
  /\ \A j \in 1..Len(log) :
       (kind[log[j].stack] = Sync /\ Registered(log[j].id, "use", "resBoth"))
          => /\ log[j].call = "Symbol.dispose" /\ log[j].arg = "resBoth"
             /\ Invocations(log[j].id) = 1
  /\ \A s \in Allocated :
       (kind[s] = Sync /\ pc[s] = "done") =>
          \A i \in 1..Len(FullRegs(s)) :
            Registered(FullRegs(s)[i], "use", "resBoth") => Invocations(FullRegs(s)[i]) = 1

\* A sync stack has disposed a value exposing both capabilities.
C14_Witness ==
  \E s \in Allocated :
    /\ kind[s] = Sync /\ pc[s] = "done"
    /\ \E i \in 1..Len(FullRegs(s)) : Registered(FullRegs(s)[i], "use", "resBoth")

\* C15: disposeAsync() invokes exactly one capability of an owned value: the
\* asynchronous one when the value exposes it, else the synchronous one.
C15_AsyncPrefersAsync ==
  /\ \A j \in 1..Len(log) :
       (kind[log[j].stack] = Async /\ how[log[j].id].op = "use")
          => /\ log[j].arg = how[log[j].id].value
             /\ log[j].call = (IF log[j].arg \in {"resAsync", "resBoth"}
                               THEN "Symbol.asyncDispose" ELSE "Symbol.dispose")
             /\ Invocations(log[j].id) = 1
  /\ \A s \in Allocated :
       (kind[s] = Async /\ pc[s] = "done") =>
          \A i \in 1..Len(FullRegs(s)) :
            how[FullRegs(s)[i]].op = "use" => Invocations(FullRegs(s)[i]) = 1

\* An async stack has disposed a value exposing both and one exposing only the
\* synchronous capability.
C15_Witness ==
  \E s \in Allocated :
    /\ kind[s] = Async /\ pc[s] = "done" /\ Len(FullRegs(s)) = 2
    /\ \E i, j \in 1..2 : /\ Registered(FullRegs(s)[i], "use", "resBoth")
                          /\ Registered(FullRegs(s)[j], "use", "resSync")

\* The cleanup of an adopted value is its callback, called with the value, at
\* most once, and once when the pass of a stack holding the entry has completed.
AdoptedThroughCallback ==
  \A id \in 1..nreg :
    how[id].op = "adopt" =>
      /\ \A j \in 1..Len(log) :
           log[j].id = id => log[j].call = "cb" /\ log[j].arg = how[id].value
      /\ \A j \in 1..Len(log) :
           log[j].arg = how[id].value => log[j].call \notin Capabilities
      /\ Invocations(id) <= 1
      /\ (\E s \in Allocated : pc[s] = "done" /\ \E i \in 1..Len(FullRegs(s)) : FullRegs(s)[i] = id)
            => Invocations(id) = 1

C17_DisposedMonotonic ==
  /\ \A s \in StackIds : ~disposed[s]
  /\ [][/\ \A s \in StackIds : disposed[s] => disposed'[s]
        /\ \A s \in StackIds : (kind[s] = "none" /\ kind'[s] # "none") => ~disposed'[s]
        /\ (IsDisposeCall(last') \/ (last'.op = "move" /\ last'.outcome = "returned"))
             => disposed'[last'.s]]_vars

\* use failed on a stack whose pass has completed.
C17_Witness ==
  /\ last.op = "use" /\ last.outcome = "ReferenceError"
  /\ pc[last.s] = "done" /\ disposed[last.s]

\* C18: when every invoked cleanup terminates, a pass that was started
\* completes, and a completed pass leaves the stack empty and disposed.
C18_Terminates ==
  /\ \A s \in StackIds : (pc[s] = "cleanup") ~> (pc[s] = "done")
  /\ [](\A s \in StackIds : pc[s] = "done" => (stack[s] = << >> /\ disposed[s]))

\* A pass over two entries has completed, one of its cleanups having thrown.
C18_Witness ==
  \E s \in Allocated :
    /\ pc[s] = "done" /\ Len(InvokedIds(s)) = 2 /\ Len(errors[s]) = 1
    /\ stack[s] = << >> /\ disposed[s]

\* C19: after a pass the error collection holds one element for every cleanup
\* that failed, in the order of execution.
C19_AllFailuresCollected ==
  \A s \in Allocated : pc[s] = "done" => errors[s] = FailedIds(s)

\* C20: a completed pass has invoked a capability of the values registered with
\* use, once per registration, in the reverse order of these registrations.
C20_Duplicates ==
  /\ \A j \in 1..Len(log) :
       log[j].call \in Capabilities =>
         how[log[j].id].op = "use" /\ log[j].arg = how[log[j].id].value
  /\ \A s \in Allocated :
       pc[s] = "done" =>
         LET caps == SelectSeq(log, LAMBDA r : r.stack = s /\ r.call \in Capabilities)
             uses == SelectSeq(FullRegs(s), LAMBDA id : how[id].op = "use")
         IN [i \in 1..Len(caps) |-> caps[i].arg]
              = Reverse([i \in 1..Len(uses) |-> how[uses[i]].value])

\* The same resource was registered twice and the pass has completed.
C20_Witness ==
  \E s \in Allocated :
    /\ pc[s] = "done" /\ Len(FullRegs(s)) = 2
    /\ Registered(FullRegs(s)[1], "use", "resSync")
    /\ Registered(FullRegs(s)[2], "use", "resSync")

----------------------------------------------------------------------------
\* [value, undefined] with a value that is a resource, registered by use
IsResourceEntry(e) ==
  /\ e.value \in Resources /\ e.onDispose = NoCallback
  /\ how[e.id] = [op |-> "use", value |-> e.value]
\* [undefined, callback], registered by adopt or defer
IsCallbackEntry(e) ==
  /\ e.value = "undefined" /\ e.onDispose.fn # "undefined"
  /\ how[e.id].op \in {"adopt", "defer"}

\* C21: every entry held by a stack is either a value without a callback,
\* registered by use, or a callback without a value, registered by adopt or
\* defer; the pass makes one call for an entry, a capability call for the first
\* shape and a callback call for the second, so no callback precedes (and by
\* failing could suppress) a capability call of the same entry.
C21_EntryShapes ==
  /\ \A s \in Allocated : \A i \in 1..Len(stack[s]) :
       /\ IsResourceEntry(stack[s][i]) \/ IsCallbackEntry(stack[s][i])
       /\ Len(Calls(kind[s], stack[s][i])) = 1
  /\ \A j \in 1..Len(log) :
       /\ log[j].call \in Capabilities <=> how[log[j].id].op = "use"
       /\ Invocations(log[j].id) = 1
  /\ \A s \in Allocated : Len(cur[s].calls) <= 1

\* A stack holds an entry of each shape, the callback on top.
C21_Witness ==
  \E s \in Allocated :
    /\ Len(stack[s]) = 2
    /\ IsResourceEntry(stack[s][1]) /\ IsCallbackEntry(stack[s][2])

----------------------------------------------------------------------------
Mutating == {"use", "adopt", "defer", "move"}
\* The last call was a use/adopt/defer/move on s that failed, made by the running
\* cleanup of the sync stack s.
FailedInsideCleanup(s) ==
  /\ kind[s] = Sync /\ pc[s] = "cleanup" /\ Runnable(s)
  /\ last.op \in Mutating /\ last.s = s /\ last.outcome = "ReferenceError"

\* Once a stack is disposed its entry sequence never grows, and a
\* use/adopt/defer/move call on a stack whose pass is running fails with
\* ReferenceError and changes no field.
C22_NeverGrows ==
  [][/\ \A s \in StackIds : disposed[s] => Len(stack'[s]) <= Len(stack[s])
     /\ (last'.op \in Mutating /\ pc[last'.s] = "cleanup")
          => /\ last'.outcome = "ReferenceError"
             /\ UNCHANGED <<stack, regs, nreg, how, errors, pc, cur, log, disposed>>]_vars

\* The step that ends a cleanup of s by which such a call was made records the
\* failure of this cleanup in the error collection, unless the cleanup has ended
\* without one, and the pass goes on with the next entry.
MisuseRecorded(s) ==
  (FailedInsideCleanup(s) /\ cur'[s] # cur[s])
    => /\ \/ errors'[s] = Append(errors[s], cur[s].id)
          \/ (errors'[s] = errors[s] /\ cur[s].id \notin inflight')
       /\ IF stack[s] = << >> THEN pc'[s] = "done"
          ELSE pc'[s] = "cleanup" /\ Len(log') = Len(log) + 1

\* C22: once a stack is disposed its entry sequence never grows; a
\* use/adopt/defer/move call on a stack whose pass is running fails with
\* ReferenceError and adds no entry; and when the call was made by a cleanup of
\* the stack, it is recorded as the failure of this cleanup and the pass goes on.
C22_MisuseRecorded ==
  /\ C22_NeverGrows
  /\ [][\A s \in StackIds : MisuseRecorded(s)]_vars

----------------------------------------------------------------------------
\* the asynchronous cleanups the sync stack s has started and gone on from
StartedAndLeft(s) ==
  {log[j].id : j \in {n \in 1..Len(log) : /\ log[n].stack = s
                                           /\ log[n].call = "Symbol.asyncDispose"
                                           /\ log[n].id # cur[s].id}}

====
